---- MODULE Spec2Model ----
(***************************************************************************)
(* Release orchestration of aetheria-cli: the `publish` command (isolated  *)
(* and monorepo mode) and the `map-dependencies` command, as state         *)
(* machines whose steps are the await-to-await segments of the handlers.   *)
(***************************************************************************)
EXTENDS Integers, Sequences, FiniteSets, TLC

VARIABLES
    history,      \* the git history of the repository, oldest first; the hash of commit i is Hash(i)
    manifest,     \* lib folder -> the package.json stored in it
    initial,      \* lib folder -> the package.json stored in it when the command was invoked
    lib_folders,  \* the directories of the origin folder, in readdir order
    flags,        \* the parsed command line of the current invocation
    target,       \* the lib whose package.json --target names (isolated mode)
    run_pc,       \* position of Publish.run / runMonorepo; "done" and "failed" are the exits 0 and non-zero
    mono,         \* locals of runMonorepo: latest_commit, greatest_release, commit_history
    pipe,         \* lib folder -> locals and position of its runIsolated call
    build_proc,   \* the spawned build subprocess
    staged,       \* lib folder -> the package.json its pipeline copied into its dist folder
    dist,         \* dist folder -> the package.json in it, the files copied there and by whom
    published,    \* lib folder -> the versions and tags `npm publish` has exited 0 for, in order
    md_fs,        \* map-dependencies: folder -> the package.json stored in it
    md_in,        \* map-dependencies: the flags, the tsconfig paths and the target's source files
    md            \* map-dependencies: locals and position of MapDependencies.run

pubvars == <<history, manifest, initial, lib_folders, flags, target, run_pc, mono, pipe,
             build_proc, staged, dist, published>>

mdvars == <<md_fs, md_in, md>>

vars == <<pubvars, mdvars>>

-----------------------------------------------------------------------------
(* Bounds of the model *)

MaxCommits == 2

-----------------------------------------------------------------------------
(* Values *)

\* JavaScript's undefined / null: a missing version, a missing reference commit
Undefined == <<"undefined">>

\* the hash of the i-th commit
Hash(i) == <<"commit", i>>

\* the abbreviated hash of the i-th commit: another name git resolves to that commit
Abbrev(i) == <<"abbrev", i>>

\* the literal revision name "HEAD"
HEAD == <<"HEAD">>

LibOrder == <<"core", "ui">>

Libs == {LibOrder[i] : i \in DOMAIN LibOrder}

\* commit messages and bodies are sequences of words
CommitPool ==
    { [message |-> <<"chore:", "deps">>, body |-> << >>],
      [message |-> <<"fix:", "typo">>,   body |-> << >>],
      [message |-> <<"docs">>,           body |-> <<"feat:", "api">>],
      [message |-> <<"feat:", "drop">>,  body |-> <<"BREAKING CHANGE:", "api">>] }

\* the first commit of a repository
RootCommit == [message |-> <<"chore:", "init">>, body |-> << >>]

\* a version string that is not a semantic version
Invalid == <<"next">>

\* the versions a lib's package.json may hold at first; Undefined is a manifest without one
InitVersions(l) ==
    IF l = "core" THEN { <<1, 0, 0>>, <<0, 2, 1>>, Undefined, Invalid }
    ELSE { <<0, 3, 0>> }

\* the names a lib's package.json may hold at first; "" is a manifest without one
InitNames(l) == IF l = "core" THEN {l, ""} ELSE {l}

-----------------------------------------------------------------------------
(* The version-control log reader (simple-git) on a linear history *)

\* the position in the history a revision names; "HEAD" names the last commit
Resolve(rev) == IF rev = HEAD THEN Len(history) ELSE rev[2]

\* git.log({from}) / git.log({from, to: "HEAD"}): the commits after `from` up to
\* HEAD, newest first, and their number
gitLog(from) ==
    LET n == Len(history) - Resolve(from)
    IN  [total |-> n,
         all   |-> [k \in 1..n |-> history[Len(history) + 1 - k]]]

\* git.log({maxCount: 1}).latest: the hash of the newest commit, null in an empty repository
getLastCommit == IF Len(history) = 0 THEN Undefined ELSE Hash(Len(history))

-----------------------------------------------------------------------------
(* semver: inc and gt on MAJOR.MINOR.PATCH versions *)

\* semver.inc(version, release): null when the version is not valid
inc(v, release) ==
    IF Len(v) /= 3 THEN Undefined
    ELSE CASE release = "major" -> <<v[1] + 1, 0, 0>>
           [] release = "minor" -> <<v[1], v[2] + 1, 0>>
           [] release = "patch" -> <<v[1], v[2], v[3] + 1>>

\* semver.gt(a, b): a is greater than b in semantic-version order
gt(a, b) ==
    \/ a[1] > b[1]
    \/ a[1] = b[1] /\ a[2] > b[2]
    \/ a[1] = b[1] /\ a[2] = b[2] /\ a[3] > b[3]

-----------------------------------------------------------------------------
(* CommitAnalyzer and VersionResolver *)

\* String.prototype.includes for one of the markers: the marker is a word of the text
includes(text, marker) == \E i \in DOMAIN text : text[i] = marker

someCommit(commit_history, marker) ==
    \E i \in DOMAIN commit_history.all :
        \/ includes(commit_history.all[i].message, marker)
        \/ includes(commit_history.all[i].body, marker)

analyzeCommitHistory(commit_history) ==
    [major |-> someCommit(commit_history, "BREAKING CHANGE:"),
     minor |-> someCommit(commit_history, "feat:"),
     patch |-> someCommit(commit_history, "fix:")]

\* bumpVersion testing the feat: marker before the breaking one
bumpVersion_minorFirst(f, version, commit_analysis) ==
    IF f.isolated /\ (~f.version_bump \/ ~f.publish) THEN version
    ELSE IF commit_analysis.minor THEN inc(version, "minor")
    ELSE IF commit_analysis.major THEN inc(version, "major")
    ELSE IF commit_analysis.patch THEN inc(version, "patch")
    ELSE version

\* bumpVersion whose minor bump keeps the patch component
bumpVersion_minorKeepsPatch(f, version, commit_analysis) ==
    IF f.isolated /\ (~f.version_bump \/ ~f.publish) THEN version
    ELSE IF commit_analysis.major THEN inc(version, "major")
    ELSE IF commit_analysis.minor
         THEN IF Len(version) /= 3 THEN Undefined
              ELSE <<version[1], version[2] + 1, version[3]>>
    ELSE IF commit_analysis.patch THEN inc(version, "patch")
    ELSE version

\* bumpVersion skipping the bump in either mode when version_bump or publish is off
bumpVersion_suppressAnyMode(f, version, commit_analysis) ==
    IF ~f.version_bump \/ ~f.publish THEN version
    ELSE IF commit_analysis.major THEN inc(version, "major")
    ELSE IF commit_analysis.minor THEN inc(version, "minor")
    ELSE IF commit_analysis.patch THEN inc(version, "patch")
    ELSE version

\* the value of pjson.version when bumpVersion returns
bumpVersion(f, version, commit_analysis) ==
    IF f.isolated /\ (~f.version_bump \/ ~f.publish) THEN version
    ELSE IF commit_analysis.major THEN inc(version, "major")
    ELSE IF commit_analysis.minor THEN inc(version, "minor")
    ELSE IF commit_analysis.patch THEN inc(version, "patch")
    ELSE version

-----------------------------------------------------------------------------
(* ReleaseReconciler *)

\* the version reducer keeping the lower of the two
greaterVersion_lower(greatest, current) == IF gt(greatest, current) THEN current ELSE greatest

\* lines 495-498: (greatest, current) => gt(greatest, current) ? greatest : current
greaterVersion(greatest, current) == IF gt(greatest, current) THEN greatest ELSE current

\* the commit reducer keeping the shorter of the two histories
longerHistory_shorter(greatest, current) == IF current.total < greatest.total THEN current ELSE greatest

\* the commit reducer letting a later sibling take over on equal totals
longerHistory_lastWins(greatest, current) == IF current.total >= greatest.total THEN current ELSE greatest

\* lines 500-506: (greatest, current) => current.total > greatest.total ? current : greatest
longerHistory(greatest, current) == IF current.total > greatest.total THEN current ELSE greatest

\* versions.reduce(greaterVersion, acc): Array.prototype.reduce, left to right
RECURSIVE reduceVersions(_, _)
reduceVersions(versions, acc) ==
    IF versions = << >> THEN acc
    ELSE reduceVersions(Tail(versions), greaterVersion(acc, Head(versions)))

\* commits.reduce(longerHistory, acc)
RECURSIVE reduceCommits(_, _)
reduceCommits(commits, acc) ==
    IF commits = << >> THEN acc
    ELSE reduceCommits(Tail(commits), longerHistory(acc, Head(commits)))

\* semver.gt throws a TypeError when one of its operands is not a semantic version: the
\* reduce of lines 495-498 compares every sibling's version
findGreatestReleaseThrows(folders) ==
    \E i \in DOMAIN folders :
        manifest[folders[i]].version /= Undefined /\ Len(manifest[folders[i]].version) /= 3

\* findGreatestRelease taking the version of the first sibling for the greatest
findGreatestRelease_firstSibling(folders) ==
    LET first == manifest[folders[1]]
        reference_commit == [i \in DOMAIN folders |->
                        IF manifest[folders[i]].reference_commit = Undefined
                        THEN HEAD ELSE manifest[folders[i]].reference_commit]
        commits == [i \in DOMAIN folders |->
                        [total |-> gitLog(reference_commit[i]).total,
                         commit |-> reference_commit[i]]]
    IN  [greatest_version |-> IF first.version = Undefined THEN <<0, 0, 0>> ELSE first.version,
         reference_commit |-> reduceCommits(commits, [total |-> 0, commit |-> HEAD])]

findGreatestRelease(folders) ==
    LET versions == [i \in DOMAIN folders |->
                        IF manifest[folders[i]].version = Undefined
                        THEN <<0, 0, 0>> ELSE manifest[folders[i]].version]
        reference_commit == [i \in DOMAIN folders |->
                        IF manifest[folders[i]].reference_commit = Undefined
                        THEN HEAD ELSE manifest[folders[i]].reference_commit]
        commits == [i \in DOMAIN folders |->
                        [total |-> gitLog(reference_commit[i]).total,
                         commit |-> reference_commit[i]]]
    IN  [greatest_version |-> reduceVersions(versions, <<0, 0, 0>>),
         reference_commit |-> reduceCommits(commits, [total |-> 0, commit |-> HEAD])]

-----------------------------------------------------------------------------
(* Publish: state *)

FlagSets ==
    [isolated : BOOLEAN, build : BOOLEAN, publish : BOOLEAN, version_bump : BOOLEAN,
     continue : BOOLEAN, nx_target : BOOLEAN, tag : {"latest", "next"},
     tsconfig : {"", "tsconfig.lib.json"}]

NoFlags ==
    [isolated |-> FALSE, build |-> FALSE, publish |-> FALSE, version_bump |-> FALSE,
     continue |-> FALSE, nx_target |-> FALSE, tag |-> "latest", tsconfig |-> ""]

NoHistory == [total |-> 0, all |-> << >>]

NoMono ==
    [latest_commit |-> Undefined,
     greatest_release |-> [greatest_version |-> Undefined,
                           reference_commit |-> [total |-> 0, commit |-> Undefined]],
     commit_history |-> NoHistory, prompts |-> 0]

\* a package.json that has not been read; assets is Undefined when the document has no
\* aetheria block
NoManifest ==
    [name |-> "", version |-> Undefined, description |-> "", assets |-> Undefined,
     reference_commit |-> Undefined]

\* a runIsolated call that has not been made; `stored` and `baseline` record the
\* package.json as read and the version bumpVersion was entered with, `answer` the reply
\* to the prompt, `rejected` that the call threw where it stands; dist_folder is the
\* empty path until resolveDistFolder has resolved
NoPipe ==
    [pc |-> "none", override |-> FALSE,
     pjson |-> [name |-> "", version |-> Undefined, description |-> ""],
     config |-> [assets |-> << >>, reference_commit |-> Undefined],
     latest_commit |-> Undefined, commit_history |-> NoHistory,
     dist_folder |-> << >>,
     stored |-> NoManifest, baseline |-> Undefined, answer |-> "none", rejected |-> FALSE]

\* a runIsolated call about to read its target
NewPipe(override) == [NoPipe EXCEPT !.pc = "read", !.override = override]

\* the libs whose pipelines the current invocation runs
Scope == {l \in Libs : pipe[l].pc /= "none"}

Alive == run_pc \in {"isolated", "fanout"}

\* the promise run() awaits settles once every pipeline has resolved
Settled(newpipe) ==
    IF \A l \in Libs : newpipe[l].pc \in {"none", "done"} THEN "done" ELSE run_pc

-----------------------------------------------------------------------------
(* Publish: the dist folder *)

\* path.resolve(base, path) on paths below the origin folder, a path being the sequence
\* of its segments: ".." steps to the parent directory
RECURSIVE resolve(_, _)
resolve(base, path) ==
    IF path = << >> THEN base
    ELSE IF Head(path) = ".." THEN resolve(SubSeq(base, 1, Len(base) - 1), Tail(path))
    ELSE resolve(Append(base, Head(path)), Tail(path))

\* outDir.replace("out-tsc", "libs/" + name): the first occurrence is replaced
RECURSIVE replaceOutTsc(_, _)
replaceOutTsc(path, name) ==
    IF path = << >> THEN << >>
    ELSE IF Head(path) = "out-tsc" THEN <<"libs", name>> \o Tail(path)
    ELSE <<Head(path)>> \o replaceOutTsc(Tail(path), name)

\* compilerOptions.outDir of the tsconfig files every lib folder holds: tsconfig.json
\* sets none, tsconfig.lib.json names the out-tsc folder next to the lib folders
outDir(file) == IF file = "tsconfig.lib.json" THEN <<"..", "dist", "out-tsc">> ELSE Undefined

\* resolveDistFolder(dirname(target)); project.json names the project after its folder
resolveDistFolder(f, l) ==
    LET out == outDir(IF f.tsconfig /= "" THEN f.tsconfig ELSE "tsconfig.json")
    IN  resolve(<<l>>, IF out = Undefined THEN <<"dist">>
                       ELSE IF f.nx_target THEN replaceOutTsc(out, l)
                       ELSE out)

\* the dist folders a run may resolve
DistFolders == {resolveDistFolder(f, l) : f \in FlagSets, l \in Libs}

\* a dist folder nothing has been copied into
NoDist == [pjson |-> NoManifest, files |-> {}, writers |-> {}]

\* copyAssets: every declared asset and package.json are copied from the lib folder into
\* the dist folder; `writers` records the pipelines that have copied into the folder
copyAssets(folder, config, pjson, l) ==
    [pjson   |-> pjson,
     files   |-> folder.files \cup {config.assets[i] : i \in DOMAIN config.assets}
                              \cup {"package.json"},
     writers |-> folder.writers \cup {l}]

-----------------------------------------------------------------------------
(* Publish: the segments of runIsolated *)

\* BaseCommand.safeError reports the message and returns to its caller, where
\* BaseCommand.error throws
safeErrorThrows == FALSE

\* verifyPreconditions without the version test of lines 934-936
verifyPreconditionsThrows_nameOnly(pjson, soft_error) ==
    /\ pjson.name = ""
    /\ soft_error => safeErrorThrows

\* verifyPreconditions: this.error throws; under soft_error this.safeError is called instead
verifyPreconditionsThrows(pjson, soft_error) ==
    /\ pjson.name = "" \/ pjson.version = Undefined
    /\ soft_error => safeErrorThrows

\* lines 537-541 without the stored reference commit: the override's, else the head commit
WithReference_headOnly(p, override_ref, latest) ==
    [p EXCEPT !.latest_commit = latest,
              !.config.reference_commit = IF override_ref /= Undefined THEN override_ref ELSE latest]

\* lines 537-541: the reference commit the history is counted from
WithReference(p, override_ref, latest) ==
    [p EXCEPT !.latest_commit = latest,
              !.config.reference_commit =
                  IF override_ref /= Undefined THEN override_ref
                  ELSE IF p.config.reference_commit /= Undefined THEN p.config.reference_commit
                  ELSE latest]

\* runIsolated without line 553: the bump starts from the stored version
Bumped_storedBaseline(p, greatest_version, next_pc) ==
    [p EXCEPT !.baseline = p.pjson.version,
              !.pjson.version = bumpVersion(flags, p.pjson.version,
                                            analyzeCommitHistory(p.commit_history)),
              !.config.reference_commit = p.latest_commit,
              !.pc = next_pc]

\* runIsolated without line 554: the stored reference commit is written back
Bumped_keepsStoredReference(p, greatest_version, next_pc) ==
    LET base == IF greatest_version /= Undefined THEN greatest_version ELSE p.pjson.version
    IN  [p EXCEPT !.baseline = base,
                  !.pjson.version = bumpVersion(flags, base, analyzeCommitHistory(p.commit_history)),
                  !.config.reference_commit = p.stored.reference_commit,
                  !.pc = next_pc]

\* lines 553-562: the override baseline, the new reference commit, the bump
Bumped(p, greatest_version, next_pc) ==
    LET base == IF greatest_version /= Undefined THEN greatest_version ELSE p.pjson.version
    IN  [p EXCEPT !.baseline = base,
                  !.pjson.version = bumpVersion(flags, base, analyzeCommitHistory(p.commit_history)),
                  !.config.reference_commit = p.latest_commit,
                  !.pc = next_pc]

\* publish() without the test of the publish flag of lines 623-626
AfterCopy_alwaysPublish == "publish"

\* lines 570-576 and publish(): what follows the asset copy
AfterCopy == IF flags.publish THEN "publish" ELSE "done"

\* runIsolated without the nx-target test of line 571
AfterPersist_alwaysCopy == "copy"

\* lines 570-573: what follows parallelize(updatePackageJSON, resolveDistFolder)
AfterPersist == IF flags.nx_target THEN AfterCopy ELSE "copy"

\* updatePackageJSON writing an aetheria block that holds the reference commit only
updatePackageJSON_freshConfig(pjson, config) ==
    [name |-> pjson.name, version |-> pjson.version, description |-> pjson.description,
     assets |-> << >>, reference_commit |-> config.reference_commit]

\* updatePackageJSON: the document written to the target
updatePackageJSON(pjson, config) ==
    [name |-> pjson.name, version |-> pjson.version, description |-> pjson.description,
     assets |-> config.assets, reference_commit |-> config.reference_commit]

-----------------------------------------------------------------------------
(* Publish: actions *)

\* Publish.run: the command is invoked with flags f on target t
StartRun(f, t) ==
    /\ run_pc = "idle"
    /\ t \in {lib_folders[i] : i \in DOMAIN lib_folders}
    /\ flags' = f
    /\ target' = t
    /\ mono' = NoMono
    /\ build_proc' = "none"
    /\ IF f.isolated
       THEN /\ run_pc' = "isolated"
            /\ pipe' = [pipe EXCEPT ![t] = NewPipe(FALSE)]
       ELSE /\ run_pc' = "reconcile"
            /\ pipe' = pipe
    /\ UNCHANGED <<history, manifest, lib_folders, initial, staged, dist, published, mdvars>>

\* runMonorepo skipping the build of line 419 under --no-build
MonoReconcile_honoursNoBuild ==
    /\ run_pc = "reconcile"
    /\ IF getLastCommit = Undefined \/ findGreatestReleaseThrows(lib_folders)
       THEN /\ run_pc' = "failed"
            /\ UNCHANGED <<mono, build_proc>>
       ELSE /\ mono' = [mono EXCEPT !.latest_commit = getLastCommit,
                                    !.greatest_release = findGreatestRelease(lib_folders)]
            /\ build_proc' = IF flags.build THEN "running" ELSE build_proc
            /\ run_pc' = IF flags.build THEN "build" ELSE "history"
    /\ UNCHANGED <<history, manifest, lib_folders, initial, flags, target, pipe, staged, dist, published, mdvars>>

\* runMonorepo lines 414-419: latest commit and greatest release, then the build is spawned
MonoReconcile ==
    /\ run_pc = "reconcile"
    /\ IF getLastCommit = Undefined \/ findGreatestReleaseThrows(lib_folders)
       THEN /\ run_pc' = "failed"
            /\ UNCHANGED <<mono, build_proc>>
       ELSE /\ mono' = [mono EXCEPT !.latest_commit = getLastCommit,
                                    !.greatest_release = findGreatestRelease(lib_folders)]
            /\ build_proc' = "running"
            /\ run_pc' = "build"
    /\ UNCHANGED <<history, manifest, lib_folders, initial, flags, target, pipe, staged, dist, published, mdvars>>

\* the libs the spawned build builds: the target, in monorepo mode every lib folder
Built ==
    IF flags.isolated THEN {target} ELSE {lib_folders[i] : i \in DOMAIN lib_folders}

\* plainBuild without the fail() of line 854: a non-zero exit settles nothing
BuildClose_failureUnreported(code) ==
    /\ build_proc = "running"
    /\ run_pc \in {"build", "isolated"}
    /\ IF code = 0
       THEN /\ build_proc' = "ok"
            /\ run_pc' = IF run_pc = "build" THEN "history" ELSE run_pc
       ELSE /\ build_proc' = "failed"
            /\ run_pc' = run_pc
    /\ UNCHANGED <<history, manifest, lib_folders, initial, flags, target, mono, pipe, staged, dist, published, mdvars>>

\* plainBuild: the build subprocess closes with an exit code; an nx build leaves the
\* package.json of each lib it built in the lib's dist folder
BuildClose(code) ==
    /\ build_proc = "running"
    /\ run_pc \in {"build", "isolated"}
    /\ IF code = 0
       THEN /\ build_proc' = "ok"
            /\ run_pc' = IF run_pc = "build" THEN "history" ELSE run_pc
            /\ dist' = IF flags.nx_target
                       THEN [d \in DistFolders |->
                               LET built == {l \in Built : resolveDistFolder(flags, l) = d}
                               IN  IF built = {} THEN dist[d]
                                   ELSE [dist[d] EXCEPT !.pjson = manifest[CHOOSE l \in built : TRUE]]]
                       ELSE dist
       ELSE /\ build_proc' = "failed"
            /\ run_pc' = "failed"
            /\ dist' = dist
    /\ UNCHANGED <<history, manifest, lib_folders, initial, flags, target, mono, pipe, staged, published, mdvars>>

\* the fan-out of runMonorepo lines 427-439
FanOut == [l \in Libs |->
            IF \E i \in DOMAIN lib_folders : lib_folders[i] = l THEN NewPipe(TRUE) ELSE pipe[l]]

\* runMonorepo counting the shared history from the first sibling's reference commit
MonoHistory_firstSibling ==
    /\ run_pc = "history"
    /\ LET first == manifest[lib_folders[1]].reference_commit
           h == gitLog(IF first = Undefined THEN HEAD ELSE first)
       IN  /\ IF h.total = 0 /\ ~flags.continue
              THEN /\ run_pc' = "prompt"
                   /\ pipe' = pipe
                   /\ mono' = [mono EXCEPT !.commit_history = h, !.prompts = @ + 1]
              ELSE /\ run_pc' = "fanout"
                   /\ pipe' = FanOut
                   /\ mono' = [mono EXCEPT !.commit_history = h]
    /\ UNCHANGED <<history, manifest, lib_folders, initial, flags, target, build_proc, staged, dist, published, mdvars>>

\* runMonorepo lines 420-427: the shared history, the gate, the fan-out
MonoHistory ==
    /\ run_pc = "history"
    /\ LET h == gitLog(mono.greatest_release.reference_commit.commit)
       IN  /\ IF h.total = 0 /\ ~flags.continue
              THEN /\ run_pc' = "prompt"
                   /\ pipe' = pipe
                   /\ mono' = [mono EXCEPT !.commit_history = h, !.prompts = @ + 1]
              ELSE /\ run_pc' = "fanout"
                   /\ pipe' = FanOut
                   /\ mono' = [mono EXCEPT !.commit_history = h]
    /\ UNCHANGED <<history, manifest, lib_folders, initial, flags, target, build_proc, staged, dist, published, mdvars>>

\* ensureEnoughCommitsOrContinue in runMonorepo: the prompt is answered
MonoPrompt(answer) ==
    /\ run_pc = "prompt"
    /\ IF answer
       THEN run_pc' = "fanout" /\ pipe' = FanOut
       ELSE run_pc' = "failed" /\ pipe' = pipe
    /\ UNCHANGED <<history, manifest, lib_folders, initial, flags, target, mono, build_proc, staged, dist, published, mdvars>>

\* runIsolated lines 517-534 (and, under an override, on to line 568)
PipeRead(l) ==
    /\ Alive
    /\ pipe[l].pc = "read"
    /\ LET p0 == [pipe[l] EXCEPT
                    !.stored = manifest[l],
                    !.pjson = [name |-> manifest[l].name, version |-> manifest[l].version,
                               description |-> manifest[l].description],
                    !.config = [assets |-> IF manifest[l].assets = Undefined
                                           THEN << >> ELSE manifest[l].assets,
                                reference_commit |-> manifest[l].reference_commit]]
       IN  IF verifyPreconditionsThrows(p0.pjson, p0.override)
           THEN /\ run_pc' = "failed"
                /\ pipe' = [pipe EXCEPT ![l] = [p0 EXCEPT !.rejected = TRUE]]
                /\ build_proc' = build_proc
           ELSE IF p0.override
           THEN /\ pipe' = [pipe EXCEPT ![l] =
                     Bumped([WithReference(p0, mono.greatest_release.reference_commit.commit,
                                           mono.latest_commit)
                               EXCEPT !.commit_history = mono.commit_history],
                            mono.greatest_release.greatest_version, "persist")]
                /\ UNCHANGED <<run_pc, build_proc>>
           ELSE /\ pipe' = [pipe EXCEPT ![l] = [p0 EXCEPT !.pc = "latest"]]
                /\ build_proc' = IF flags.build THEN "running" ELSE build_proc
                /\ run_pc' = run_pc
    /\ UNCHANGED <<history, manifest, lib_folders, initial, flags, target, mono, staged, dist, published, mdvars>>

\* runIsolated lines 537-541: getLatestCommitOrFail resolves
PipeLatest(l) ==
    /\ Alive
    /\ pipe[l].pc = "latest"
    /\ IF getLastCommit = Undefined
       THEN run_pc' = "failed" /\ pipe' = [pipe EXCEPT ![l].rejected = TRUE]
       ELSE /\ pipe' = [pipe EXCEPT ![l] =
                    [WithReference(pipe[l], Undefined, getLastCommit) EXCEPT !.pc = "history"]]
            /\ run_pc' = run_pc
    /\ UNCHANGED <<history, manifest, lib_folders, initial, flags, target, mono, build_proc, staged, dist, published, mdvars>>

\* where runIsolated stops after bumping: at `await build`, or at the parallelize of line 565
AfterBump == IF flags.build THEN "await_build" ELSE "persist"

\* runIsolated asking on every empty history, whatever the continue flag
PipeHistory_asksDespiteContinue(l) ==
    /\ Alive
    /\ pipe[l].pc = "history"
    /\ LET p1 == [pipe[l] EXCEPT !.commit_history = gitLog(pipe[l].config.reference_commit)]
       IN  pipe' = [pipe EXCEPT ![l] =
                IF p1.commit_history.total = 0
                THEN [p1 EXCEPT !.pc = "prompt"]
                ELSE Bumped(p1, Undefined, AfterBump)]
    /\ UNCHANGED <<history, manifest, lib_folders, initial, flags, target, run_pc, mono, build_proc, staged, dist, published, mdvars>>

\* runIsolated lines 544-562: getCommitHistory resolves
PipeHistory(l) ==
    /\ Alive
    /\ pipe[l].pc = "history"
    /\ LET p1 == [pipe[l] EXCEPT !.commit_history = gitLog(pipe[l].config.reference_commit)]
       IN  pipe' = [pipe EXCEPT ![l] =
                IF p1.commit_history.total = 0 /\ ~flags.continue
                THEN [p1 EXCEPT !.pc = "prompt"]
                ELSE Bumped(p1, Undefined, AfterBump)]
    /\ UNCHANGED <<history, manifest, lib_folders, initial, flags, target, run_pc, mono, build_proc, staged, dist, published, mdvars>>

\* the prompt of runIsolated without the exit of line 593: a refusal is only reported
PipePrompt_declineContinues(l, answer) ==
    /\ Alive
    /\ pipe[l].pc = "prompt"
    /\ run_pc' = run_pc
    /\ pipe' = [pipe EXCEPT ![l] =
                  Bumped([pipe[l] EXCEPT !.answer = IF answer THEN "yes" ELSE "no"],
                         Undefined, AfterBump)]
    /\ UNCHANGED <<history, manifest, lib_folders, initial, flags, target, mono, build_proc, staged, dist, published, mdvars>>

\* ensureEnoughCommitsOrContinue in runIsolated: the prompt is answered
PipePrompt(l, answer) ==
    /\ Alive
    /\ pipe[l].pc = "prompt"
    /\ IF answer
       THEN /\ run_pc' = run_pc
            /\ pipe' = [pipe EXCEPT ![l] =
                          Bumped([pipe[l] EXCEPT !.answer = "yes"], Undefined, AfterBump)]
       ELSE /\ run_pc' = "failed"
            /\ pipe' = [pipe EXCEPT ![l].answer = "no", ![l].rejected = TRUE]
    /\ UNCHANGED <<history, manifest, lib_folders, initial, flags, target, mono, build_proc, staged, dist, published, mdvars>>

\* runIsolated without the await of lines 560-562
PipeBuilt_noAwait(l) ==
    /\ Alive
    /\ pipe[l].pc = "await_build"
    /\ pipe' = [pipe EXCEPT ![l].pc = "persist"]
    /\ UNCHANGED <<history, manifest, lib_folders, initial, flags, target, run_pc, mono, build_proc, staged, dist, published, mdvars>>

\* runIsolated lines 560-568: the awaited build has resolved
PipeBuilt(l) ==
    /\ Alive
    /\ pipe[l].pc = "await_build"
    /\ build_proc = "ok"
    /\ pipe' = [pipe EXCEPT ![l].pc = "persist"]
    /\ UNCHANGED <<history, manifest, lib_folders, initial, flags, target, run_pc, mono, build_proc, staged, dist, published, mdvars>>

\* runIsolated feeding the version it writes back into the shared greatest release
PipeWrite_raisesGreatest(l) ==
    /\ Alive
    /\ pipe[l].pc = "persist"
    /\ manifest' = [manifest EXCEPT ![l] = updatePackageJSON(pipe[l].pjson, pipe[l].config)]
    /\ pipe' = [pipe EXCEPT ![l].pc = AfterPersist,
                             ![l].dist_folder = resolveDistFolder(flags, l)]
    /\ run_pc' = Settled(pipe')
    /\ mono' = IF pipe[l].override
               THEN [mono EXCEPT !.greatest_release.greatest_version = pipe[l].pjson.version]
               ELSE mono
    /\ UNCHANGED <<history, lib_folders, initial, flags, target, build_proc, staged, dist, published, mdvars>>

\* runIsolated lines 565-573: parallelize(updatePackageJSON, resolveDistFolder) settles.
\* resolveDistFolder only reads the tsconfig, so the step is taken when writeFile completes.
PipeWrite(l) ==
    /\ Alive
    /\ pipe[l].pc = "persist"
    /\ manifest' = [manifest EXCEPT ![l] = updatePackageJSON(pipe[l].pjson, pipe[l].config)]
    /\ pipe' = [pipe EXCEPT ![l].pc = AfterPersist,
                             ![l].dist_folder = resolveDistFolder(flags, l)]
    /\ run_pc' = Settled(pipe')
    /\ UNCHANGED <<history, lib_folders, initial, flags, target, mono, build_proc, staged, dist, published, mdvars>>

\* runIsolated lines 570-573: the copies of copyAssets complete
PipeCopy(l) ==
    /\ Alive
    /\ pipe[l].pc = "copy"
    /\ staged' = [staged EXCEPT ![l] = manifest[l]]
    /\ dist' = [dist EXCEPT ![pipe[l].dist_folder] = copyAssets(@, pipe[l].config, manifest[l], l)]
    /\ pipe' = [pipe EXCEPT ![l].pc = AfterCopy]
    /\ run_pc' = Settled(pipe')
    /\ UNCHANGED <<history, manifest, lib_folders, initial, flags, target, mono, build_proc, published, mdvars>>

\* publish: `npm publish` closes with an exit code
PublishClose(l, code) ==
    /\ Alive
    /\ pipe[l].pc = "publish"
    /\ IF code = 0
       THEN /\ published' = [published EXCEPT ![l] =
                                Append(@, [version |-> dist[pipe[l].dist_folder].pjson.version,
                                           tag |-> flags.tag])]
            /\ pipe' = [pipe EXCEPT ![l].pc = "done"]
            /\ run_pc' = Settled(pipe')
       ELSE /\ published' = published
            /\ pipe' = [pipe EXCEPT ![l].rejected = TRUE]
            /\ run_pc' = "failed"
    /\ UNCHANGED <<history, manifest, lib_folders, initial, flags, target, mono, build_proc, staged, dist, mdvars>>

\* a developer commits before the command is invoked
Commit(c) ==
    /\ run_pc = "idle"
    /\ Len(history) < MaxCommits + 1
    /\ history' = IF history = << >> THEN <<RootCommit>> ELSE Append(history, c)
    /\ UNCHANGED <<manifest, lib_folders, initial, flags, target, run_pc, mono, pipe, build_proc, staged, dist, published, mdvars>>

-----------------------------------------------------------------------------
(* Publish: specification *)

\* the reference commits a lib's package.json may hold at first: none, or a commit of the
\* history under a name git resolves: its hash, as line 554 writes it, and for the first
\* commit in the package.json of a lib after the first one its abbreviated hash
InitReferences(l, h) ==
    {Undefined} \cup
        {IF i = 1 /\ l /= LibOrder[1] THEN Abbrev(i) ELSE Hash(i) : i \in 1..Len(h)}

\* the package.json files a lib folder may hold when the command is first invoked
Manifests(l, h) ==
    {m \in [name : InitNames(l), version : InitVersions(l), description : {"a lib"},
            assets : {Undefined, <<"README.md">>},
            reference_commit : InitReferences(l, h)] :
        /\ m.name = "" => m.version = <<1, 0, 0>>
        /\ m.assets = Undefined <=> m.reference_commit = Undefined}

\* an empty repository, or the first commit and up to MaxCommits more
Histories ==
    {<< >>} \cup {<<RootCommit>> \o h : h \in UNION {[1..n -> CommitPool] : n \in 0..MaxCommits}}

Folders == {SubSeq(LibOrder, 1, n) : n \in 1..Len(LibOrder)}

\* the command lines the model invokes: --tag and --nx-target are each given on one
\* isolated command line, --no-build and --tsconfig each on one monorepo command line;
\* in monorepo mode, where version_bump only selects the warning of lines 737-739, the
\* flag is the one asking for no bump
RunFlags ==
    {f \in FlagSets :
        /\ ~f.isolated => ~f.version_bump
        /\ f.tag = "next" =>
              f.isolated /\ f.publish /\ f.version_bump /\ f.continue /\ f.build /\ ~f.nx_target
        /\ ~f.build <=> ~f.isolated /\ ~f.publish /\ f.continue
        /\ f.nx_target =>
              f.isolated /\ f.publish /\ f.version_bump /\ f.continue /\ f.tag = "latest"
        /\ f.tsconfig /= "" <=>
              f.nx_target \/ (~f.isolated /\ f.publish /\ ~f.continue /\ f.build)}

InitPublish ==
    /\ history \in Histories
    /\ lib_folders \in Folders
    /\ manifest \in [Libs -> UNION {Manifests(l, history) : l \in Libs} \cup {NoManifest}]
    /\ initial = manifest
    /\ \A l \in Libs :
          IF \E i \in DOMAIN lib_folders : lib_folders[i] = l
          THEN manifest[l] \in Manifests(l, history)
          ELSE manifest[l] = NoManifest
    /\ flags = NoFlags
    /\ target = LibOrder[1]
    /\ run_pc = "idle"
    /\ mono = NoMono
    /\ pipe = [l \in Libs |-> NoPipe]
    /\ build_proc = "none"
    /\ staged = [l \in Libs |-> NoManifest]
    /\ dist = [d \in DistFolders |-> NoDist]
    /\ published = [l \in Libs |-> << >>]

NextPublish ==
    \/ \E f \in RunFlags, t \in Libs : StartRun(f, t)
    \/ MonoReconcile
    \/ \E code \in {0, 1} : BuildClose(code)
    \/ MonoHistory
    \/ \E answer \in BOOLEAN : MonoPrompt(answer)
    \/ \E l \in Libs : PipeRead(l)
    \/ \E l \in Libs : PipeLatest(l)
    \/ \E l \in Libs : PipeHistory(l)
    \/ \E l \in Libs, answer \in BOOLEAN : PipePrompt(l, answer)
    \/ \E l \in Libs : PipeBuilt(l)
    \/ \E l \in Libs : PipeWrite(l)
    \/ \E l \in Libs : PipeCopy(l)
    \/ \E l \in Libs, code \in {0, 1} : PublishClose(l, code)
    \/ \E c \in CommitPool : Commit(c)

-----------------------------------------------------------------------------
(* MapDependencies: values *)

\* package names and import specifiers are their "/"-separated segments
PkgA == <<"@x", "a">>

PkgB == <<"@x", "b">>

PkgC == <<"@x", "c">>

Lodash == <<"lodash">>

Tslib == <<"tslib">>

\* the folders holding a package.json: the target, two more local packages, the workspace root
MdFolders == {"a", "b", "c", "base"}

\* the import specifiers the target's source files may hold
ImportPool ==
    { <<"@x", "b", "utils">>, <<"@x", "a", "internal">>, <<"node:fs">>, <<".", "helpers">> }

\* the first character of the specifier is a dot: the import is relative
startsWithDot(spec) == spec[1] \in {".", ".."}

\* dependency.startsWith("node:")
startsWithNode(spec) == spec[1] \in {"node:fs"}

\* dep.startsWith("@")
startsWithAt(segment) == segment \in {"@x"}

\* a dependencies object: name -> version range
DepMap(names, range) == [d \in names |-> range]

\* Object.keys
Keys(obj) == DOMAIN obj

\* obj[key] = value
Put(obj, key, value) == [k \in DOMAIN obj \cup {key} |-> IF k = key THEN value ELSE obj[k]]

-----------------------------------------------------------------------------
(* MapDependencies: helpers of run *)

\* import_regex of getDependencies: the non-relative specifiers imported by the files
importMatches(imports) == {spec \in imports : ~startsWithDot(spec)}

transformDependency(dependency) ==
    IF startsWithAt(dependency[1]) /\ Len(dependency) >= 2
    THEN <<dependency[1], dependency[2]>>
    ELSE <<dependency[1]>>

transformDependencies(dependencies) == {transformDependency(d) : d \in dependencies}

\* getDependencies: the dependency set after the files are scanned
getDependencies(src, dependencies) ==
    transformDependencies(
        dependencies
        \cup {spec \in importMatches(src.imports) : ~startsWithNode(spec)}
        \cup (IF src.typescript THEN {Tslib} ELSE {}))

\* loadLocalDependencies: alias -> "^" + the version of the package it maps to
loadLocalDependencies ==
    IF ~md_in.tsconfig THEN DepMap({}, "")
    ELSE [alias \in DOMAIN md_in.paths |-> "^" \o md_fs[md_in.paths[alias]].version]

\* loadDependencies: package_json.dependencies || {}
loadDependencies(folder) == md_fs[folder].dependencies

\* run lines 51-68: the versions written for the dependencies, in sorted order; the
\* iterations touch different keys, so their order does not show
RECURSIVE resolveAll(_, _, _, _)
resolveAll(todo, raw, base, locals) ==
    IF todo = {} THEN raw
    ELSE LET d == CHOOSE x \in todo : TRUE
             next == IF d \in Keys(base) THEN Put(raw, d, base[d])
                     ELSE IF ~md_in.tsconfig THEN raw
                     ELSE IF d \in Keys(locals) THEN Put(raw, d, locals[d])
                     ELSE raw
         IN  resolveAll(todo \ {d}, next, base, locals)

\* verifyCircularDependency lines 88-90
dependsOnItself(name, dependencies) == name \in dependencies

\* the check of one path-mapped dependency looking for its own name in its manifest
dependsBack_checksItself(name, dependencies, local_dependency) ==
    /\ local_dependency \in dependencies
    /\ local_dependency \in Keys(md_fs[md_in.paths[local_dependency]].dependencies)

\* the check of one path-mapped dependency following its path-mapped dependencies one step further
dependsBack_transitive(name, dependencies, local_dependency) ==
    /\ local_dependency \in dependencies
    /\ LET listed == Keys(md_fs[md_in.paths[local_dependency]].dependencies)
       IN  \/ name \in listed
           \/ \E d \in DOMAIN md_in.paths :
                 d \in listed /\ name \in Keys(md_fs[md_in.paths[d]].dependencies)

\* verifyCircularDependency lines 100-124 for one path-mapped dependency
dependsBack(name, dependencies, local_dependency) ==
    /\ local_dependency \in dependencies
    /\ name \in Keys(md_fs[md_in.paths[local_dependency]].dependencies)

\* verifyCircularDependency testing the target's own name after the tsconfig guard
verifySelf_afterGuard(name, dependencies) ==
    IF ~md_in.tsconfig THEN [pc |-> "write", error |-> ""]
    ELSE IF dependsOnItself(name, dependencies) THEN [pc |-> "failed", error |-> "self"]
    ELSE [pc |-> "verify", error |-> ""]

\* verifyCircularDependency lines 88-97, entered when the files have been scanned: it
\* throws ("failed"), returns ("write"), or goes on to read the local manifests ("verify")
verifySelf(name, dependencies) ==
    IF dependsOnItself(name, dependencies) THEN [pc |-> "failed", error |-> "self"]
    ELSE IF ~md_in.tsconfig THEN [pc |-> "write", error |-> ""]
    ELSE [pc |-> "verify", error |-> ""]

\* verifyCircularDependency lines 99-126, once the local manifests have been read
verifyLocal(name, dependencies) ==
    IF \E d \in DOMAIN md_in.paths : dependsBack(name, dependencies, d)
    THEN [pc |-> "failed", error |-> "mutual"]
    ELSE [pc |-> "write", error |-> ""]

-----------------------------------------------------------------------------
(* MapDependencies: actions *)

NoMd ==
    [pc |-> "off", target_package_json |-> [name |-> << >>, version |-> "", dependencies |-> << >>],
     raw_dependencies |-> << >>, base_dependencies |-> << >>, local_dependencies |-> << >>,
     dependencies |-> {}, error |-> "", log |-> {}]

\* run lines 34-47: the four loads of Promise.all resolve
MdLoad ==
    /\ md.pc = "start"
    /\ md' = [md EXCEPT
                !.pc = "scan",
                !.target_package_json = md_fs["a"],
                !.raw_dependencies = loadDependencies("a"),
                !.base_dependencies = loadDependencies("base"),
                !.local_dependencies = loadLocalDependencies,
                !.dependencies = Keys(loadDependencies("a")),
                !.log = IF md_in.tsconfig THEN {} ELSE {"no tsconfig"}]
    /\ UNCHANGED <<md_fs, md_in, pubvars>>

\* run lines 49-70 and verifyCircularDependency lines 88-99: the files have been read
MdScan ==
    /\ md.pc = "scan"
    /\ LET dependencies == getDependencies(md_in.src, md.dependencies)
           unresolved == {d \in dependencies : d \notin Keys(md.base_dependencies)}
           name == md.target_package_json.name
           scanned == [md EXCEPT
                !.dependencies = dependencies,
                !.raw_dependencies =
                    resolveAll(dependencies, md.raw_dependencies, md.base_dependencies,
                               md.local_dependencies),
                !.log = @ \cup (IF ~md_in.tsconfig /\ unresolved /= {}
                                THEN {"cannot resolve"} ELSE {})]
       IN  IF ~md_in.tsconfig /\ unresolved /= {} /\ safeErrorThrows
           THEN md' = [scanned EXCEPT !.error = "unresolved", !.pc = "failed"]
           ELSE md' = [scanned EXCEPT
                !.log = @ \cup (IF ~md_in.tsconfig /\ ~dependsOnItself(name, dependencies)
                                THEN {"skipping local check"} ELSE {}),
                !.error = verifySelf(name, dependencies).error,
                !.pc = verifySelf(name, dependencies).pc]
    /\ UNCHANGED <<md_fs, md_in, pubvars>>

\* verifyCircularDependency lines 99-126: the manifests of the path-mapped dependencies have been read
MdVerify ==
    /\ md.pc = "verify"
    /\ LET v == verifyLocal(md.target_package_json.name, md.dependencies)
       IN  md' = [md EXCEPT !.error = v.error, !.pc = v.pc]
    /\ UNCHANGED <<md_fs, md_in, pubvars>>

\* run lines 72-79: writeFile completes
MdWrite ==
    /\ md.pc = "write"
    /\ md_fs' = [md_fs EXCEPT !["a"] =
                    [md.target_package_json EXCEPT !.dependencies = md.raw_dependencies]]
    /\ md' = [md EXCEPT !.pc = "done"]
    /\ UNCHANGED <<md_in, pubvars>>

-----------------------------------------------------------------------------
(* Specifications *)

MdFiles(deps_a, deps_b, deps_c) ==
    [f \in MdFolders |->
        CASE f = "a" -> [name |-> PkgA, version |-> "1.0.0", dependencies |-> DepMap(deps_a, "*")]
          [] f = "b" -> [name |-> PkgB, version |-> "1.1.0", dependencies |-> DepMap(deps_b, "*")]
          [] f = "c" -> [name |-> PkgC, version |-> "2.0.0", dependencies |-> DepMap(deps_c, "*")]
          [] f = "base" -> [name |-> <<"root">>, version |-> "0.0.0",
                            dependencies |-> DepMap({Lodash, Tslib}, "^4.0.0")]]

\* compilerOptions.paths of the tsconfig: alias -> the folder its first path resolves to
PathMaps ==
    {[alias \in aliases |-> IF alias = PkgB THEN "b" ELSE "c"] : aliases \in SUBSET {PkgB, PkgC}}

InitMapDependencies ==
    /\ \E deps_a \in SUBSET {PkgA, PkgB, Lodash}, deps_b \in SUBSET {PkgA, PkgC},
          deps_c \in SUBSET {PkgA} :
            md_fs = MdFiles(deps_a, deps_b, deps_c)
    /\ \E tsconfig \in BOOLEAN, paths \in PathMaps, imports \in SUBSET ImportPool,
          typescript \in BOOLEAN :
            /\ ~tsconfig => paths = << >>
            /\ md_in = [tsconfig |-> tsconfig, paths |-> paths,
                        src |-> [imports |-> imports, typescript |-> typescript]]
    /\ md = [NoMd EXCEPT !.pc = "start"]

\* the publish command is not running
PublishOff ==
    /\ history = << >>
    /\ lib_folders = << >>
    /\ manifest = [l \in Libs |-> NoManifest]
    /\ initial = manifest
    /\ flags = NoFlags
    /\ target = LibOrder[1]
    /\ run_pc = "off"
    /\ mono = NoMono
    /\ pipe = [l \in Libs |-> NoPipe]
    /\ build_proc = "none"
    /\ staged = [l \in Libs |-> NoManifest]
    /\ dist = [d \in DistFolders |-> NoDist]
    /\ published = [l \in Libs |-> << >>]

\* the map-dependencies command is not running
MapDependenciesOff ==
    /\ md_fs = MdFiles({}, {}, {})
    /\ md_in = [tsconfig |-> FALSE, paths |-> << >>,
                src |-> [imports |-> {}, typescript |-> FALSE]]
    /\ md = NoMd

NextMapDependencies == MdLoad \/ MdScan \/ MdVerify \/ MdWrite

Init ==
    /\ InitPublish
    /\ MapDependenciesOff

InitMap ==
    /\ PublishOff
    /\ InitMapDependencies

\* the publish command
Spec == Init /\ [][NextPublish]_vars

\* the steps of runMonorepo: they wait for git, for the build to close, for the answer
MonoStep ==
    \/ MonoReconcile
    \/ MonoHistory
    \/ \E answer \in BOOLEAN : MonoPrompt(answer)

\* the steps of the runIsolated call on lib l: they wait for the file system, for git,
\* for the answer to the prompt, for the build and for `npm publish` to close
PipeStep(l) ==
    \/ PipeRead(l)
    \/ PipeLatest(l)
    \/ PipeHistory(l)
    \/ \E answer \in BOOLEAN : PipePrompt(l, answer)
    \/ PipeBuilt(l)
    \/ PipeWrite(l)
    \/ PipeCopy(l)
    \/ \E code \in {0, 1} : PublishClose(l, code)

\* whether a run ends does not depend on what the commits say: the histories of the
\* specification with fairness hold the first commit and fix commits
FixCommit == [message |-> <<"fix:", "typo">>, body |-> << >>]

InitLive ==
    /\ Init
    /\ \A i \in DOMAIN history : history[i] \in {RootCommit, FixCommit}

NextLive ==
    \/ \E f \in RunFlags, t \in Libs : StartRun(f, t)
    \/ MonoStep
    \/ \E code \in {0, 1} : BuildClose(code)
    \/ \E l \in Libs : PipeStep(l)
    \/ Commit(FixCommit)

\* the publish command where every subprocess closes, every prompt is answered and every
\* settled promise has its continuation run
SpecLive ==
    /\ InitLive
    /\ [][NextLive]_vars
    /\ WF_vars(MonoStep)
    /\ WF_vars(\E code \in {0, 1} : BuildClose(code))
    /\ \A l \in Libs : WF_vars(PipeStep(l))

\* the map-dependencies command
SpecMap == InitMap /\ [][NextMapDependencies]_vars

-----------------------------------------------------------------------------
(* Properties of the publish command *)

\* the pipeline of lib l has returned from bumpVersion
BumpRan(l) == pipe[l].pc \in {"await_build", "persist", "copy", "publish", "done"}

\* the pipeline of lib l has rewritten its package.json
Persisted(l) == pipe[l].pc \in {"copy", "publish", "done"}

\* the guard of bumpVersion that skips the bump: --isolated without version_bump or publish
Suppressed == flags.isolated /\ (~flags.version_bump \/ ~flags.publish)

\* some commit of the history holds the marker in its subject or in its body
HasMarker(h, marker) ==
    \E i \in 1..h.total :
        \/ \E k \in DOMAIN h.all[i].message : h.all[i].message[k] = marker
        \/ \E k \in DOMAIN h.all[i].body : h.all[i].body[k] = marker

\* the component a version was raised in
KindOf(before, after) ==
    IF after[1] > before[1] THEN "major"
    ELSE IF after[2] > before[2] THEN "minor"
    ELSE IF after[3] > before[3] THEN "patch"
    ELSE "none"

\* the bump the markers of a history call for
Precedence(h) ==
    IF HasMarker(h, "BREAKING CHANGE:") THEN "major"
    ELSE IF HasMarker(h, "feat:") THEN "minor"
    ELSE IF HasMarker(h, "fix:") THEN "patch"
    ELSE "none"

\* X.Y.Z raised by a bump
Raised(v, kind) ==
    CASE kind = "major" -> <<v[1] + 1, 0, 0>>
      [] kind = "minor" -> <<v[1], v[2] + 1, 0>>
      [] kind = "patch" -> <<v[1], v[2], v[3] + 1>>
      [] kind = "none"  -> v

\* C1: whenever the decision chain of bumpVersion is reached, the bump it applies is
\* major if any commit of the history holds "BREAKING CHANGE:" in its subject or body,
\* else minor if any holds "feat:", else patch if any holds "fix:", else none.
C1_PrecedenceIsGlobal ==
    \A l \in Libs :
        BumpRan(l) /\ ~Suppressed /\ Len(pipe[l].baseline) = 3 =>
            KindOf(pipe[l].baseline, pipe[l].pjson.version) = Precedence(pipe[l].commit_history)

\* a fix-only commit and, in another commit, a breaking change next to a feat: the bump is major
C1_Witness ==
    \E l \in Libs :
        /\ BumpRan(l) /\ ~Suppressed /\ Len(pipe[l].baseline) = 3
        /\ pipe[l].commit_history.total = 2
        /\ \E i, j \in 1..2 :
              /\ i /= j
              /\ pipe[l].commit_history.all[i].message[1] = "fix:"
              /\ pipe[l].commit_history.all[j].message[1] = "feat:"
              /\ pipe[l].commit_history.all[j].body[1] = "BREAKING CHANGE:"
        /\ KindOf(pipe[l].baseline, pipe[l].pjson.version) = "major"

\* C2: the version bumpVersion leaves is the baseline X.Y.Z raised by the bump applied:
\* major gives (X+1).0.0, minor X.(Y+1).0, patch X.Y.(Z+1), none X.Y.Z.
C2_BumpArithmetic ==
    \A l \in Libs :
        BumpRan(l) /\ Len(pipe[l].baseline) = 3 =>
            LET a == analyzeCommitHistory(pipe[l].commit_history)
                applied == IF Suppressed THEN "none"
                           ELSE IF a.major THEN "major"
                           ELSE IF a.minor THEN "minor"
                           ELSE IF a.patch THEN "patch"
                           ELSE "none"
            IN  pipe[l].pjson.version = Raised(pipe[l].baseline, applied)

\* 0.2.1 raised by a minor bump is 0.3.0
C2_Witness ==
    \E l \in Libs :
        /\ BumpRan(l)
        /\ pipe[l].baseline = <<0, 2, 1>>
        /\ pipe[l].pjson.version = <<0, 3, 0>>

\* the libs of the origin folder
Siblings == {lib_folders[i] : i \in DOMAIN lib_folders}

\* a is lower than b in semantic-version order
Lower(a, b) ==
    \/ a[1] < b[1]
    \/ a[1] = b[1] /\ a[2] < b[2]
    \/ a[1] = b[1] /\ a[2] = b[2] /\ a[3] < b[3]

\* C3: a pipeline that received a GreatestRelease override enters bumpVersion with the
\* override's greatest_version and persists that version raised by the bump of the
\* history; where its stored version differs from the greatest one and the bump is a
\* patch or none, what it persists is not the stored version raised by that bump.
C3_OverrideReplacesStored ==
    \A l \in Libs :
        pipe[l].override /\ Persisted(l) =>
            LET kind == Precedence(pipe[l].commit_history)
                greatest_version == mono.greatest_release.greatest_version
            IN  /\ pipe[l].baseline = greatest_version
                /\ manifest[l].version = Raised(greatest_version, kind)
                /\ (/\ Len(pipe[l].stored.version) = 3
                    /\ pipe[l].stored.version /= greatest_version
                    /\ kind \in {"patch", "none"})
                        => manifest[l].version /= Raised(pipe[l].stored.version, kind)

\* override 0.3.0, stored 0.2.1, patch bump: 0.3.1 is persisted, not 0.2.2
C3_Witness ==
    \E l \in Libs :
        /\ pipe[l].override /\ Persisted(l)
        /\ pipe[l].stored.version = <<0, 2, 1>>
        /\ mono.greatest_release.greatest_version = <<0, 3, 0>>
        /\ Precedence(pipe[l].commit_history) = "patch"
        /\ manifest[l].version = <<0, 3, 1>>

\* C4: when a monorepo run has completed, every sibling's package.json holds the same
\* version, the shared greatest version raised by the shared bump, and the same
\* reference_commit.
C4_SiblingsConverge ==
    run_pc = "done" /\ ~flags.isolated =>
        \A l1 \in Siblings :
            /\ manifest[l1].version =
                  Raised(mono.greatest_release.greatest_version, Precedence(mono.commit_history))
            /\ \A l2 \in Siblings :
                  /\ manifest[l1].version = manifest[l2].version
                  /\ manifest[l1].reference_commit = manifest[l2].reference_commit

\* two siblings whose stored versions and reference commits differed have converged
C4_Witness ==
    /\ run_pc = "done" /\ ~flags.isolated
    /\ \E l1, l2 \in Siblings :
          /\ Len(pipe[l1].stored.version) = 3 /\ Len(pipe[l2].stored.version) = 3
          /\ pipe[l1].stored.version /= pipe[l2].stored.version
          /\ pipe[l1].stored.reference_commit /= Undefined
          /\ pipe[l2].stored.reference_commit /= Undefined
          /\ pipe[l1].stored.reference_commit /= pipe[l2].stored.reference_commit
          /\ manifest[l1] = [manifest[l2] EXCEPT !.name = l1]

\* findGreatestRelease has returned and no package.json has been rewritten since
Reconciled == run_pc \in {"build", "history", "prompt"}

\* the number of commits from a sibling's stored reference commit to HEAD
TotalOf(l) ==
    IF manifest[l].reference_commit = Undefined THEN 0
    ELSE Len(history) - manifest[l].reference_commit[2]

\* C5: the total findGreatestRelease returns is the greatest total of the siblings, and
\* if one sibling's total is strictly greater than every other's, the reference commit
\* returned is that sibling's stored one (with a total of 0 the name "HEAD" is returned
\* for it, which then names the same commit).
C5_LongestHistoryWins ==
    Reconciled =>
        LET reference == mono.greatest_release.reference_commit
        IN  /\ \A l \in Siblings : reference.total >= TotalOf(l)
            /\ \E l \in Siblings : reference.total = TotalOf(l)
            /\ \A l \in Siblings :
                  (\A o \in Siblings \ {l} : TotalOf(l) > TotalOf(o)) =>
                      /\ Resolve(reference.commit) = Len(history) - TotalOf(l)
                      /\ TotalOf(l) > 0 => reference.commit = manifest[l].reference_commit

\* the first sibling is 1 commit behind HEAD and the second 2: the second one's reference is returned
C5_Witness ==
    /\ Reconciled
    /\ Len(lib_folders) = 2
    /\ TotalOf(lib_folders[1]) = 1
    /\ TotalOf(lib_folders[2]) = 2
    /\ mono.greatest_release.reference_commit =
          [total |-> 2, commit |-> manifest[lib_folders[2]].reference_commit]

\* the version a sibling counts with: 0.0.0 when its package.json has none
VersionOf(l) == IF manifest[l].version = Undefined THEN <<0, 0, 0>> ELSE manifest[l].version

\* C6: the greatest_version findGreatestRelease returns is the version of one of the
\* siblings (0.0.0 for a sibling without one) and is lower than no sibling's version.
C6_GreatestVersionIsMax ==
    Reconciled =>
        LET greatest_version == mono.greatest_release.greatest_version
        IN  /\ \E l \in Siblings : greatest_version = VersionOf(l)
            /\ \A l \in Siblings : ~Lower(greatest_version, VersionOf(l))

\* siblings at 0.2.1 and 0.3.0: the greatest version is 0.3.0
C6_Witness ==
    /\ Reconciled
    /\ \E l1, l2 \in Siblings :
          /\ manifest[l1].version = <<0, 2, 1>>
          /\ manifest[l2].version = <<0, 3, 0>>
    /\ mono.greatest_release.greatest_version = <<0, 3, 0>>

\* C7: no step of a run replaces a valid version stored in a package.json by a lower one.
C7_VersionNeverDecreases ==
    [][\A l \in Libs :
          Len(manifest[l].version) = 3 =>
              /\ Len(manifest'[l].version) = 3
              /\ ~Lower(manifest'[l].version, manifest[l].version)]_vars

\* a completed monorepo run has lifted a sibling stored at 0.2.1 to 0.3.0 with no marker in the history
C7_Witness ==
    /\ run_pc = "done"
    /\ \E l \in Libs :
          /\ pipe[l].pc = "done"
          /\ pipe[l].stored.version = <<0, 2, 1>>
          /\ Precedence(pipe[l].commit_history) = "none"
          /\ manifest[l].version = <<0, 3, 0>>

-----------------------------------------------------------------------------
(* Properties of the map-dependencies command *)

\* verifyCircularDependency has returned or thrown
Validated == md.pc \in {"write", "done", "failed"}

\* the target's package.json is as it was loaded
NotWritten == md_fs["a"] = md.target_package_json

\* the path-mapped dependencies of the target whose manifest lists the target's name
MutualWith(name) ==
    {d \in DOMAIN md_in.paths :
        /\ d \in md.dependencies
        /\ name \in DOMAIN md_fs[md_in.paths[d]].dependencies}

\* C8: once the files are scanned, if the target's name is in the accumulated dependency
\* set the run has failed with the self-cycle error and the target's package.json is
\* unwritten, with a tsconfig or without one.
C8_SelfCycleIsFatal ==
    md.pc \in {"verify", "write", "done", "failed"}
    /\ md.target_package_json.name \in md.dependencies
        => md.pc = "failed" /\ md.error = "self" /\ NotWritten

\* without a tsconfig, the target imports from its own package and the run fails on it
C8_Witness ==
    /\ ~md_in.tsconfig
    /\ md.target_package_json.name = PkgA
    /\ PkgA \notin DOMAIN md_fs["a"].dependencies
    /\ PkgA \in md.dependencies
    /\ md.pc = "failed" /\ md.error = "self"
    /\ NotWritten

\* C9: with a tsconfig, once validation is over, if some path-mapped dependency in the
\* target's dependency set lists the target's name in its manifest, the run has failed
\* with a circular-dependency error and the target's package.json is unwritten.
C9_MutualCycleIsFatal ==
    Validated /\ md_in.tsconfig /\ MutualWith(md.target_package_json.name) /= {}
        => md.pc = "failed" /\ md.error \in {"self", "mutual"} /\ NotWritten

\* the target imports the path-mapped @x/b, whose manifest lists the target: the run fails
C9_Witness ==
    /\ md_in.tsconfig
    /\ PkgB \in MutualWith(PkgA)
    /\ PkgB \notin DOMAIN md_fs["a"].dependencies
    /\ md.pc = "failed" /\ md.error = "mutual"
    /\ NotWritten

\* a depends on b, b's manifest lists c, c's lists a, and there is neither a self
\* dependency nor a mutual one between two of them
Cycle3 ==
    /\ PkgB \in md.dependencies
    /\ PkgC \in DOMAIN md_fs["b"].dependencies
    /\ PkgA \in DOMAIN md_fs["c"].dependencies
    /\ PkgA \notin md.dependencies
    /\ PkgC \notin md.dependencies
    /\ PkgA \notin DOMAIN md_fs["b"].dependencies
    /\ PkgB \notin DOMAIN md_fs["b"].dependencies
    /\ PkgB \notin DOMAIN md_fs["c"].dependencies
    /\ PkgC \notin DOMAIN md_fs["c"].dependencies

\* C10: for a cycle a -> b -> c -> a, once validation is over the run has not failed and
\* no error is raised; what it then writes to a's package.json is the resolved dependencies.
C10_Cycle3NotDetected ==
    Validated /\ Cycle3 =>
        /\ md.pc \in {"write", "done"}
        /\ md.error = ""
        /\ md.pc = "done" =>
              md_fs["a"] = [md.target_package_json EXCEPT !.dependencies = md.raw_dependencies]

\* with b and c both path-mapped, the run on a has completed and written @x/b's version
C10_Witness ==
    /\ md_in.tsconfig
    /\ DOMAIN md_in.paths = {PkgB, PkgC}
    /\ Cycle3
    /\ md.pc = "done"
    /\ md_fs["a"].dependencies[PkgB] = "^1.1.0"

-----------------------------------------------------------------------------
(* Properties of the publish command: failures and effects *)

\* the pipeline of lib l has spawned `npm publish`
PublishInvoked(l) == pipe[l].pc = "publish" \/ (pipe[l].pc = "done" /\ flags.publish)

\* C11: in isolated mode a pipeline passes the gate on an empty history without the
\* continue flag only on a confirmation, and once the confirmation is declined the run
\* has exited non-zero with the package.json as it was and without publishing.
C11_DeclinedGateAborts ==
    \A l \in Libs :
        /\ flags.isolated /\ BumpRan(l) /\ pipe[l].commit_history.total = 0 /\ ~flags.continue
              => pipe[l].answer = "yes"
        /\ flags.isolated /\ pipe[l].answer = "no" =>
              /\ pipe[l].commit_history.total = 0 /\ ~flags.continue
              /\ run_pc = "failed"
              /\ manifest[l] = initial[l]
              /\ ~PublishInvoked(l)
              /\ published[l] = << >>

\* the reference commit is the head commit, --continue is not given, the answer is no
C11_Witness ==
    \E l \in Libs :
        /\ flags.isolated /\ ~flags.continue /\ flags.publish
        /\ initial[l].reference_commit = Hash(Len(history))
        /\ pipe[l].answer = "no"
        /\ run_pc = "failed"
        /\ manifest[l] = initial[l]

\* the read of line 522 has completed in the pipeline of lib l
HasRead(l) == pipe[l].pc /= "none" /\ (pipe[l].pc /= "read" \/ pipe[l].rejected)

\* the package.json lacks a name or a version
Incomplete(m) == m.name = "" \/ m.version = Undefined

\* C12: in isolated mode, once a package.json without a name or without a version has
\* been read, the run has failed at the precondition step: no build was spawned, the
\* package.json is as it was, nothing is staged and nothing published.
C12_PreconditionIsFatal ==
    \A l \in Libs :
        flags.isolated /\ HasRead(l) /\ Incomplete(initial[l]) =>
            /\ run_pc = "failed"
            /\ pipe[l].pc = "read" /\ pipe[l].rejected
            /\ build_proc = "none"
            /\ manifest[l] = initial[l]
            /\ staged[l] = NoManifest
            /\ published[l] = << >>

\* a package.json with a version and no name has stopped the isolated run
C12_Witness ==
    \E l \in Libs :
        /\ flags.isolated /\ flags.publish
        /\ initial[l].name = "" /\ initial[l].version = <<1, 0, 0>>
        /\ pipe[l].pc = "read" /\ pipe[l].rejected
        /\ run_pc = "failed"

\* C13: in monorepo mode a sibling whose package.json lacks a name or a version is
\* skipped: its package.json stays as it was and `npm publish` is not spawned for it.
C13_BrokenSiblingIsSkipped ==
    \A l \in Libs :
        ~flags.isolated /\ pipe[l].override /\ HasRead(l) /\ Incomplete(initial[l]) =>
            /\ manifest[l] = initial[l]
            /\ ~PublishInvoked(l)
            /\ published[l] = << >>

\* C14: the package.json a pipeline has rewritten holds the version bumpVersion left,
\* the hash of the head commit as reference_commit, and the name, the other fields and
\* the assets it was read with (the empty asset list of lines 523-525 when the document
\* had no aetheria block).
C14_RewriteKeepsTheRest ==
    \A l \in Libs :
        Persisted(l) =>
            /\ manifest[l].version = pipe[l].pjson.version
            /\ manifest[l].reference_commit = Hash(Len(history))
            /\ manifest[l].name = initial[l].name
            /\ manifest[l].description = initial[l].description
            /\ manifest[l].assets =
                  IF initial[l].assets = Undefined THEN << >> ELSE initial[l].assets

\* 1.0.0 at the first commit, with assets, rewritten as 2.0.0 at the third commit
C14_Witness ==
    \E l \in Libs :
        /\ Persisted(l)
        /\ initial[l].version = <<1, 0, 0>> /\ initial[l].reference_commit = Hash(1)
        /\ initial[l].assets = <<"README.md">>
        /\ manifest[l] = [initial[l] EXCEPT !.version = <<2, 0, 0>>, !.reference_commit = Hash(3)]

\* C15: a pipeline that entered the decision chain of bumpVersion with a version that is
\* not a semantic version has failed there: the package.json is not rewritten and
\* `npm publish` is not spawned.
C15_InvalidVersionIsFatal ==
    \A l \in Libs :
        BumpRan(l) /\ ~Suppressed /\ pipe[l].baseline = Invalid =>
            /\ manifest[l] = initial[l]
            /\ ~PublishInvoked(l)

\* C16: `npm publish` is spawned only with the publish flag set, the build closed with
\* 0, the package.json rewritten and, unless an nx target is set, staged; with the flag
\* set a pipeline that is done has published exactly once, under the --tag given (the
\* rewritten version, when the pipeline staged it); and a pipeline whose `npm publish`
\* closed non-zero is not done and the run has failed.
C16_PublishIsLastAndGated ==
    \A l \in Libs :
        /\ PublishInvoked(l) =>
              /\ flags.publish
              /\ build_proc = "ok"
              /\ manifest[l] = updatePackageJSON(pipe[l].pjson, pipe[l].config)
              /\ manifest[l].reference_commit = Hash(Len(history))
              /\ ~flags.nx_target => staged[l] = manifest[l]
        /\ ~flags.publish => published[l] = << >>
        /\ pipe[l].pc = "done" /\ flags.publish =>
              /\ Len(published[l]) = 1
              /\ published[l][1].tag = flags.tag
              /\ ~flags.nx_target => published[l][1].version = manifest[l].version
        /\ pipe[l].pc = "publish" =>
              /\ published[l] = << >>
              /\ pipe[l].rejected => run_pc = "failed"

\* a run with --tag next has published 1.0.1 under that tag
C16_Witness ==
    \E l \in Libs :
        /\ pipe[l].pc = "done"
        /\ published[l] = <<[version |-> <<1, 0, 1>>, tag |-> "next"]>>

\* C17: a package.json is rewritten and assets are staged only after the build
\* subprocess closed with 0, and once it closed non-zero the run has failed with every
\* package.json as it was, nothing staged and nothing published.
C17_BuildComesFirst ==
    /\ \A l \in Libs :
          Persisted(l) \/ staged[l] /= NoManifest \/ manifest[l] /= initial[l]
              => build_proc = "ok"
    /\ build_proc = "failed" =>
          /\ run_pc = "failed"
          /\ \A l \in Libs :
                /\ manifest[l] = initial[l]
                /\ staged[l] = NoManifest
                /\ ~PublishInvoked(l)
                /\ published[l] = << >>

\* the build closes non-zero while the isolated pipeline, its version bumped, awaits it
C17_Witness ==
    /\ flags.isolated /\ flags.build
    /\ build_proc = "failed" /\ run_pc = "failed"
    /\ pipe[target].pc = "await_build"
    /\ pipe[target].pjson.version /= initial[target].version
    /\ manifest[target] = initial[target]

\* C18: in monorepo mode with publishing enabled, after a run that failed on the build
\* at most one sibling is left without a rewritten package.json and a spawned
\* `npm publish`, and after one that failed on a sibling's `npm publish` every other
\* sibling has both.
C18_FailureIsContained ==
    ~flags.isolated /\ flags.publish /\ run_pc = "failed" =>
        /\ build_proc = "failed" =>
              Cardinality({l \in Siblings : ~(Persisted(l) /\ PublishInvoked(l))}) <= 1
        /\ \A l \in Siblings :
              pipe[l].pc = "publish" /\ pipe[l].rejected =>
                  \A o \in Siblings \ {l} : Persisted(o) /\ PublishInvoked(o)

\* C19: when a run has ended, a package.json whose reference_commit differs from the one
\* it held when the command was invoked belongs to a package this run has published.
C19_ReferenceMarksPublished ==
    run_pc \in {"done", "failed"} =>
        \A l \in Libs :
            manifest[l].reference_commit /= initial[l].reference_commit
                => published[l] /= << >>

\* the reference commit a sibling enters the reconciliation with: the stored one, "HEAD"
\* when its package.json has none
StoredReference(l) ==
    IF manifest[l].reference_commit = Undefined THEN HEAD ELSE manifest[l].reference_commit

\* the first sibling, in iteration order, whose total is the greatest of all
FirstGreatest ==
    LET greatest == {i \in DOMAIN lib_folders :
                        \A j \in DOMAIN lib_folders : TotalOf(lib_folders[i]) >= TotalOf(lib_folders[j])}
    IN  lib_folders[CHOOSE i \in greatest : \A j \in greatest : i <= j]

\* C20 as stated: the reference commit findGreatestRelease returns is the stored reference
\* commit of the first sibling holding the greatest total, also when every total is 0.
C20_FirstOfTheGreatestWins ==
    Reconciled =>
        mono.greatest_release.reference_commit.commit = StoredReference(FirstGreatest)

\* C20: when the greatest total is positive, findGreatestRelease returns the stored
\* reference commit of the first sibling, in iteration order, holding that total; when
\* every total is 0 it returns the revision name "HEAD" with total 0, whatever the
\* siblings store.
C20_FirstWinsAboveZero ==
    Reconciled =>
        LET reference == mono.greatest_release.reference_commit
        IN  /\ TotalOf(FirstGreatest) > 0 =>
                  reference = [total  |-> TotalOf(FirstGreatest),
                               commit |-> manifest[FirstGreatest].reference_commit]
            /\ TotalOf(FirstGreatest) = 0 => reference = [total |-> 0, commit |-> HEAD]

\* two siblings are both 1 commit behind HEAD and name that commit differently: the name
\* the first one stores is returned
C20_Witness ==
    /\ Reconciled
    /\ Len(lib_folders) = 2
    /\ TotalOf(lib_folders[1]) = 1
    /\ TotalOf(lib_folders[2]) = 1
    /\ manifest[lib_folders[1]].reference_commit /= manifest[lib_folders[2]].reference_commit
    /\ mono.greatest_release.reference_commit.commit = manifest[lib_folders[1]].reference_commit

-----------------------------------------------------------------------------
(* Properties of the publish command: order and sharing *)

\* the commits from the reference commit a sibling stored at invocation up to HEAD
OwnHistory(l) ==
    gitLog(IF initial[l].reference_commit = Undefined THEN HEAD ELSE initial[l].reference_commit)

\* C21: in monorepo mode the history a sibling's bump is decided on is the shared one,
\* and it holds every commit of the sibling's own range from its stored reference commit
\* to HEAD, so every marker of that range counts in the decision.
C21_SharedHistoryCoversEverySibling ==
    \A l \in Libs :
        ~flags.isolated /\ BumpRan(l) =>
            LET own    == OwnHistory(l)
                shared == pipe[l].commit_history
            IN  /\ shared = mono.commit_history
                /\ own.total <= shared.total
                /\ \A k \in 1..own.total : shared.all[k] = own.all[k]
                /\ analyzeCommitHistory(own).major => analyzeCommitHistory(shared).major
                /\ analyzeCommitHistory(own).minor => analyzeCommitHistory(shared).minor
                /\ analyzeCommitHistory(own).patch => analyzeCommitHistory(shared).patch

\* the second sibling is 2 commits behind HEAD, the first one 1: the first one's bump is
\* decided on both commits
C21_Witness ==
    /\ ~flags.isolated
    /\ Len(lib_folders) = 2
    /\ BumpRan(lib_folders[1])
    /\ OwnHistory(lib_folders[1]).total = 1
    /\ OwnHistory(lib_folders[2]).total = 2
    /\ pipe[lib_folders[1]].commit_history.total = 2

\* the pipeline of lib l holds the history its bump is computed from
HistoryFetched(l) == pipe[l].pc \in {"prompt", "await_build", "persist", "copy", "publish", "done"}

\* C22: while the build subprocess of a run is running, the history the version bump is
\* computed from has already been fetched: by the pipeline in isolated mode, by
\* runMonorepo in monorepo mode.
C22_HistoryBeforeBuild ==
    build_proc = "running" =>
        IF flags.isolated THEN HistoryFetched(target)
        ELSE run_pc \in {"prompt", "fanout"}

\* the reference commit the history of the pipeline of lib l is to be counted from
ReferenceOf(l) ==
    IF pipe[l].override THEN mono.greatest_release.reference_commit.commit
    ELSE IF pipe[l].stored.reference_commit /= Undefined THEN pipe[l].stored.reference_commit
    ELSE Hash(Len(history))

\* C23: the history of a pipeline is counted from the reference commit of the override
\* when there is one, else from the reference_commit its package.json stored, else from
\* the hash of the head commit, and is empty in that last case.
C23_ReferenceResolution ==
    \A l \in Libs :
        /\ pipe[l].pc = "history" => pipe[l].config.reference_commit = ReferenceOf(l)
        /\ HistoryFetched(l) =>
              /\ pipe[l].commit_history = gitLog(ReferenceOf(l))
              /\ ~pipe[l].override /\ pipe[l].stored.reference_commit = Undefined =>
                    pipe[l].commit_history = NoHistory

\* an isolated pipeline whose package.json stored the first commit counts 2 commits at
\* the third
C23_Witness ==
    \E l \in Libs :
        /\ ~pipe[l].override /\ HistoryFetched(l)
        /\ pipe[l].stored.reference_commit = Hash(1)
        /\ Len(history) = 3
        /\ pipe[l].commit_history.total = 2

\* findGreatestRelease has returned in the current monorepo run
Computed == mono.greatest_release.greatest_version /= Undefined

\* C24: in monorepo mode every step that writes a package.json or copies into a dist
\* folder is taken with the greatest release computed, no step after the reconciliation
\* changes it, and a sibling pipeline that reads its package.json takes the greatest
\* version as its baseline and the shared history as its history.
C24_GreatestReleaseIsFixed ==
    [][~flags.isolated /\ run_pc \notin {"idle", "off"} =>
          /\ manifest' /= manifest \/ staged' /= staged \/ dist' /= dist =>
                Computed /\ run_pc = "fanout"
          /\ Computed => mono'.greatest_release = mono.greatest_release
          /\ \A l \in Libs :
                pipe[l].pc = "read" /\ pipe'[l].pc /= "read" =>
                    /\ pipe'[l].baseline = mono.greatest_release.greatest_version
                    /\ pipe'[l].commit_history =
                          gitLog(mono.greatest_release.reference_commit.commit)]_vars

\* the first sibling has rewritten its package.json with the bumped version and the
\* second, yet to read its own, still finds the greatest release as it was reconciled
C24_Witness ==
    /\ ~flags.isolated
    /\ Len(lib_folders) = 2
    /\ Persisted(lib_folders[1])
    /\ manifest[lib_folders[1]].version /= mono.greatest_release.greatest_version
    /\ pipe[lib_folders[2]].pc = "read"
    /\ Computed

\* C25: in monorepo mode a package.json is rewritten by the pipeline of its own lib only,
\* and no dist folder receives the copies of two pipelines.
C25_PipelinesWriteApart ==
    ~flags.isolated =>
        /\ \A l \in Libs : manifest[l] /= initial[l] => Persisted(l)
        /\ \A d \in DistFolders : Cardinality(dist[d].writers) <= 1

\* the pipeline of lib l has presented the confirmation
Asked(l) == pipe[l].pc = "prompt" \/ pipe[l].answer /= "none"

\* C26: the confirmation is presented only on an empty fetched history with the continue
\* flag unset; a monorepo run presents it at most once, from runMonorepo, with no
\* sibling pipeline started and every package.json as it was, and its sibling pipelines
\* never present it.
C26_PromptOnlyAtTheGate ==
    /\ mono.prompts <= 1
    /\ mono.prompts = 1 => ~flags.isolated /\ mono.commit_history.total = 0 /\ ~flags.continue
    /\ run_pc = "prompt" =>
          /\ mono.prompts = 1
          /\ \A l \in Libs : pipe[l].pc = "none" /\ manifest[l] = initial[l]
    /\ \A l \in Libs :
          Asked(l) =>
              /\ flags.isolated /\ ~pipe[l].override
              /\ pipe[l].commit_history.total = 0 /\ ~flags.continue

\* a monorepo run has asked once, was told to go on, and a sibling pipeline has
\* rewritten its package.json without asking
C26_Witness ==
    /\ ~flags.isolated
    /\ mono.prompts = 1
    /\ run_pc = "fanout"
    /\ \E l \in Libs : Persisted(l) /\ ~Asked(l)

\* C27: in monorepo mode, with or without the build flag, the one build of the run is
\* spawned by runMonorepo and has closed with 0 before any sibling pipeline exists, and
\* no sibling pipeline spawns or awaits a build.
C27_BatchBuildOnly ==
    ~flags.isolated =>
        /\ run_pc = "build" => build_proc = "running"
        /\ run_pc \in {"history", "prompt", "fanout", "done"} => build_proc = "ok"
        /\ \A l \in Libs :
              pipe[l].pc /= "none" =>
                  /\ build_proc = "ok"
                  /\ pipe[l].override
                  /\ pipe[l].pc /= "await_build"

\* a monorepo run with --no-build: the build has closed with 0 and a sibling has
\* rewritten its package.json
C27_Witness ==
    /\ ~flags.isolated /\ ~flags.build
    /\ build_proc = "ok"
    /\ \E l \in Libs : Persisted(l)

\* C28: without an nx target the rewrite of a package.json is followed by the copy, and
\* the step completing the copy leaves in the dist folder the rewritten package.json,
\* with the new version and the head commit as reference_commit, and every declared
\* asset; with an nx target the rewrite is not followed by the copy and no step of the
\* command copies into a dist folder.
C28_StagingFollowsTheRewrite ==
    [][\A l \in Libs :
          /\ pipe[l].pc = "persist" /\ pipe'[l].pc /= "persist" =>
                (pipe'[l].pc = "copy" <=> ~flags.nx_target)
          /\ staged'[l] /= staged[l] => pipe[l].pc = "copy" /\ pipe'[l].pc /= "copy"
          /\ pipe[l].pc = "copy" /\ pipe'[l].pc /= "copy" =>
                LET folder == dist'[pipe[l].dist_folder]
                IN  /\ ~flags.nx_target
                    /\ manifest[l] = updatePackageJSON(pipe[l].pjson, pipe[l].config)
                    /\ manifest[l].reference_commit = Hash(Len(history))
                    /\ staged'[l] = manifest[l]
                    /\ folder.pjson = manifest[l]
                    /\ "package.json" \in folder.files
                    /\ \A i \in DOMAIN pipe[l].config.assets :
                          pipe[l].config.assets[i] \in folder.files
                    /\ l \in folder.writers
          /\ flags.nx_target =>
                /\ staged' = staged
                /\ \A d \in DistFolders :
                      dist'[d].files = dist[d].files /\ dist'[d].writers = dist[d].writers]_vars

\* a package.json bumped from 1.0.0 to 1.1.0 lies in the dist folder next to the README
C28_Witness ==
    \E l \in Libs :
        /\ ~flags.nx_target
        /\ pipe[l].pc \in {"publish", "done"}
        /\ initial[l].version = <<1, 0, 0>>
        /\ dist[pipe[l].dist_folder] =
              [pjson |-> manifest[l], files |-> {"README.md", "package.json"}, writers |-> {l}]
        /\ manifest[l].version = <<1, 1, 0>>

-----------------------------------------------------------------------------
(* Properties of the publish command: suppression and termination *)

\* C29: with --isolated and version_bump or publish off, bumpVersion leaves the baseline
\* version whatever the history holds, and that version is persisted; in every other
\* run, monorepo runs with version_bump or publish off among them, a history holding a
\* marker makes it leave, and persist, another version than the baseline.
C29_SuppressionIsIsolatedOnly ==
    \A l \in Libs :
        BumpRan(l) =>
            /\ Suppressed => pipe[l].pjson.version = pipe[l].baseline
            /\ ~Suppressed /\ Precedence(pipe[l].commit_history) /= "none" =>
                  pipe[l].pjson.version /= pipe[l].baseline
            /\ Persisted(l) => manifest[l].version = pipe[l].pjson.version

\* a monorepo run with publish and version_bump off has persisted 0.3.0 bumped to 0.3.1
C29_Witness ==
    \E l \in Libs :
        /\ ~flags.isolated /\ ~flags.publish /\ ~flags.version_bump
        /\ Persisted(l)
        /\ pipe[l].baseline = <<0, 3, 0>>
        /\ manifest[l].version = <<0, 3, 1>>

\* C30: a run that has been started ends, with exit 0 or in a fatal error, and so does
\* every runIsolated call: it completes or the run has failed.
C30_EveryRunEnds ==
    /\ run_pc \in {"isolated", "reconcile", "build", "history", "prompt", "fanout"}
          ~> run_pc \in {"done", "failed"}
    /\ \A l \in Libs :
          pipe[l].pc /= "none" ~> (pipe[l].pc = "done" \/ run_pc = "failed")

\* an isolated run that asked for confirmation, awaited its build and `npm publish`
\* has ended with exit 0
C30_Witness ==
    /\ flags.isolated
    /\ run_pc = "done"
    /\ pipe[target].answer = "yes"
    /\ build_proc = "ok"
    /\ published[target] /= << >>

====
